---- MODULE Spec2Model ----
(***************************************************************************)
(* A model of the nextrows client: the NextrowsClient facade               *)
(* (src/src/client/index.ts), its endpoint operations extract              *)
(* (src/src/api/extract.ts) and runAppJson (src/src/api/apps.ts), the      *)
(* getCredits operation and the token-issuance variant of the client.      *)
(*                                                                         *)
(* JavaScript values are tagged records: [str |-> s], [num |-> n],         *)
(* [bool |-> b], [arr |-> <<...>>], [obj |-> [key |-> value, ...]],        *)
(* [null |-> TRUE] and [undef |-> TRUE].  What travels on the wire is JSON *)
(* text, modelled as a tree of lexemes: [lex |-> "10"], [lex |-> "\"a\""], *)
(* [elems |-> <<...>>], [members |-> [key |-> ...]].                       *)
(***************************************************************************)
EXTENDS Integers, Sequences, FiniteSets, TLC

VARIABLES
  client,       \* the facade: NoClient, or the constructed NextrowsClient
  second,       \* another facade (NoClient or constructed) and the slots of its calls
  tokenClient,  \* the token-issuance variant of the facade, or NoClient
  calls,        \* per call slot: the invocation in progress (pc, op, request, result)
  wire,         \* per call slot: the HTTP requests the invocation has put on the wire
  net           \* per call slot: what the network delivered for the invocation's request

vars == <<client, second, tokenClient, calls, wire, net>>

\* The number of invocations that can be in progress at the same time.
MaxCalls == 2

Slots == 1..MaxCalls

----------------------------------------------------------------------------
(* JavaScript values *)

JStr(s) == [str |-> s]
JNum(n) == [num |-> n]
JBool(b) == [bool |-> b]
JArr(a) == [arr |-> a]
JObj(o) == [obj |-> o]
JNull == [null |-> TRUE]
Undefined == [undef |-> TRUE]

IsTag(v, t) == t \in DOMAIN v

\* {} : the object without keys
EmptyObject == [k \in {} |-> Undefined]

\* The numbers and strings that occur as JSON scalars in this model.
Numbers == {0, 10, 2500}

Strings ==
  { "url", "text", "https://example.com", "https://example.com/products",
    "Extract product names and prices", "The title is Hello World",
    "array", "string", "abc123xyz", "maxItems", "headless", "10",
    "Product 1", "$10.00", "Name", "Price", "run_abc123",
    "Unauthorized", "Invalid API key", "Hello World",
    "client_credentials", "test-app-key", "test-app-secret", "other-app-key",
    "other-app-secret", "20230101000000", "Bearer", "test-token" }

----------------------------------------------------------------------------
(* JSON.stringify and JSON.parse, as axios applies them to a request body  *)
(* that is an object and to a response body.                               *)

Quote(s) == "\"" \o s \o "\""

RECURSIVE JSONstringify(_)
JSONstringify(v) ==
  CASE IsTag(v, "str")  -> [lex |-> Quote(v.str)]
    [] IsTag(v, "num")  -> [lex |-> ToString(v.num)]
    [] IsTag(v, "bool") -> [lex |-> IF v.bool THEN "true" ELSE "false"]
    [] IsTag(v, "null") -> [lex |-> "null"]
    [] IsTag(v, "arr")  ->
         [elems |-> [i \in DOMAIN v.arr |->
                       IF v.arr[i] = Undefined THEN [lex |-> "null"]
                       ELSE JSONstringify(v.arr[i])]]
    [] IsTag(v, "obj")  ->
         [members |-> [k \in {x \in DOMAIN v.obj : v.obj[x] # Undefined} |->
                         JSONstringify(v.obj[k])]]

ParseLexeme(l) ==
  IF l = "true" THEN JBool(TRUE)
  ELSE IF l = "false" THEN JBool(FALSE)
  ELSE IF l = "null" THEN JNull
  ELSE IF \E n \in Numbers : ToString(n) = l
       THEN JNum(CHOOSE n \in Numbers : ToString(n) = l)
  ELSE IF \E s \in Strings : Quote(s) = l
       THEN JStr(CHOOSE s \in Strings : Quote(s) = l)
  ELSE JStr(l)   \* not JSON: axios hands the text over as it is

RECURSIVE JSONparse(_)
JSONparse(w) ==
  CASE IsTag(w, "lex")     -> ParseLexeme(w.lex)
    [] IsTag(w, "elems")   -> JArr([i \in DOMAIN w.elems |-> JSONparse(w.elems[i])])
    [] IsTag(w, "members") -> JObj([k \in DOMAIN w.members |-> JSONparse(w.members[k])])

----------------------------------------------------------------------------
(* The facade and its transport binding (client/index.ts) *)

BASE_URL == "https://api.nextrows.com"

DefaultTimeout == 30000

NoClient == [none |-> TRUE]

\* axios.create({baseURL, timeout, headers}): the instance keeps the defaults.
axios_create(config) == config

\* A variant of the constructor that sends the key without the Bearer scheme.
NextrowsClient_rawKey(apiKey, options) ==
  LET baseUrl == IF "baseUrl" \in DOMAIN options THEN options.baseUrl ELSE BASE_URL
      timeout == IF "timeout" \in DOMAIN options THEN options.timeout ELSE DefaultTimeout
  IN [apiKey |-> apiKey,
      client |-> axios_create(
                   [baseURL |-> baseUrl,
                    timeout |-> timeout,
                    headers |-> ("Authorization" :> apiKey)
                                @@ ("Content-Type" :> "application/json")])]

\* A variant of the constructor that validates the key and throws on an empty
\* one.
NextrowsClient_validated(apiKey, options) ==
  LET baseUrl == IF "baseUrl" \in DOMAIN options THEN options.baseUrl ELSE BASE_URL
      timeout == IF "timeout" \in DOMAIN options THEN options.timeout ELSE DefaultTimeout
  IN IF apiKey = ""
     THEN [thrown |-> "apiKey is required"]
     ELSE [apiKey |-> apiKey,
           client |-> axios_create(
                        [baseURL |-> baseUrl,
                         timeout |-> timeout,
                         headers |-> ("Authorization" :> ("Bearer " \o apiKey))
                                     @@ ("Content-Type" :> "application/json")])]

\* new NextrowsClient(apiKey, options): `options` is a function from the keys
\* the caller gave to their values; a key that is not given takes its default.
NextrowsClient(apiKey, options) ==
  LET baseUrl == IF "baseUrl" \in DOMAIN options THEN options.baseUrl ELSE BASE_URL
      timeout == IF "timeout" \in DOMAIN options THEN options.timeout ELSE DefaultTimeout
  IN [apiKey |-> apiKey,
      client |-> axios_create(
                   [baseURL |-> baseUrl,
                    timeout |-> timeout,
                    headers |-> ("Authorization" :> ("Bearer " \o apiKey))
                                @@ ("Content-Type" :> "application/json")])]

NoBody == [absent |-> TRUE]

\* instance.post(path, data): one request, with the instance's defaults merged in
\* and the data serialised as JSON.
post(instance, path, data) ==
  [method  |-> "POST",
   url     |-> instance.baseURL \o path,
   timeout |-> instance.timeout,
   headers |-> instance.headers,
   body    |-> JSONstringify(data)]

\* instance.get(path): one request without a body.
get(instance, path) ==
  [method  |-> "GET",
   url     |-> instance.baseURL \o path,
   timeout |-> instance.timeout,
   headers |-> instance.headers,
   body    |-> NoBody]

\* axios's default validateStatus.
validateStatus(status) == status >= 200 /\ status < 300

\* How axios settles the promise of a request, given what the network delivered:
\* a response [status, body] or a failure [failure |-> code].
AxiosSettle(ev) ==
  IF IsTag(ev, "status")
  THEN LET response == [status |-> ev.status, data |-> JSONparse(ev.body)]
       IN IF validateStatus(ev.status)
          THEN [fulfilled |-> response]
          ELSE [rejected |-> [name |-> "AxiosError",
                              code |-> IF ev.status < 500 THEN "ERR_BAD_REQUEST"
                                       ELSE "ERR_BAD_RESPONSE",
                              response |-> response]]
  ELSE [rejected |-> [name |-> "AxiosError", code |-> ev.failure]]

----------------------------------------------------------------------------
(* The response shapes the operations declare *)

IsOptional(o, k, t) == k \in DOMAIN o => IsTag(o[k], t)

\* ExtractResponse {success: boolean; data?: unknown}
IsExtractResponse(v) ==
  /\ IsTag(v, "obj")
  /\ "success" \in DOMAIN v.obj
  /\ IsTag(v.obj.success, "bool")

\* RunAppJsonData {columns: string[]; rows: AppCellValue[][]}
IsRunAppJsonData(v) ==
  /\ IsTag(v, "obj")
  /\ DOMAIN v.obj = {"columns", "rows"}
  /\ IsTag(v.obj.columns, "arr")
  /\ \A i \in DOMAIN v.obj.columns.arr : IsTag(v.obj.columns.arr[i], "str")
  /\ IsTag(v.obj.rows, "arr")
  /\ \A i \in DOMAIN v.obj.rows.arr :
       /\ IsTag(v.obj.rows.arr[i], "arr")
       /\ \A j \in DOMAIN v.obj.rows.arr[i].arr :
            \E t \in {"str", "num", "bool"} : IsTag(v.obj.rows.arr[i].arr[j], t)

\* RunAppJsonResponse {success; data?; runId?; elapsedTime?; error?}
IsRunAppJsonResponse(v) ==
  /\ IsTag(v, "obj")
  /\ "success" \in DOMAIN v.obj
  /\ IsTag(v.obj.success, "bool")
  /\ "data" \in DOMAIN v.obj => IsRunAppJsonData(v.obj.data)
  /\ IsOptional(v.obj, "runId", "str")
  /\ IsOptional(v.obj, "elapsedTime", "num")
  /\ IsOptional(v.obj, "error", "str")

\* NextrowsOAuthTokenResponse {expires_dt, token_type, token}
IsTokenResponse(v) ==
  /\ IsTag(v, "obj")
  /\ DOMAIN v.obj = {"expires_dt", "token_type", "token"}
  /\ \A k \in DOMAIN v.obj : IsTag(v.obj[k], "str")

----------------------------------------------------------------------------
(* Endpoint operations.  Each is the request it puts on the wire and what  *)
(* it does with the settled promise after its await.                       *)

\* A variant of extract that sends an empty prompt when none is given.
extract_defaultPrompt(instance, request) ==
  post(instance, "/v1/extract",
       JObj([k \in DOMAIN request.obj \cup {"prompt"} |->
               IF k \in DOMAIN request.obj /\ request.obj[k] # Undefined
               THEN request.obj[k]
               ELSE IF k = "prompt" THEN JStr("") ELSE Undefined]))

\* extract: client.post("/v1/extract", request)
extract(instance, request) == post(instance, "/v1/extract", request)

\* A variant of extract's return that hands over the response, not its data.
extract_return_response(settled) ==
  IF IsTag(settled, "fulfilled")
  THEN [resolved |-> settled.fulfilled]
  ELSE [rejected |-> settled.rejected]

\* A variant of extract's return that checks the body against ExtractResponse
\* and rejects one that does not match.
extract_return_validated(settled) ==
  IF IsTag(settled, "fulfilled")
  THEN IF IsExtractResponse(settled.fulfilled.data)
       THEN [resolved |-> settled.fulfilled.data]
       ELSE [rejected |-> [name |-> "DecodingFailure"]]
  ELSE [rejected |-> settled.rejected]

\* A variant of extract's return that catches the rejection and answers with
\* an unsuccessful response.
extract_return_caught(settled) ==
  IF IsTag(settled, "fulfilled")
  THEN [resolved |-> settled.fulfilled.data]
  ELSE [resolved |-> JObj([success |-> JBool(FALSE)])]

\* extract: return response.data; a rejection is not caught
extract_return(settled) ==
  IF IsTag(settled, "fulfilled")
  THEN [resolved |-> settled.fulfilled.data]
  ELSE [rejected |-> settled.rejected]

\* String(value)
String(v) ==
  CASE IsTag(v, "str")  -> v
    [] IsTag(v, "num")  -> JStr(ToString(v.num))
    [] IsTag(v, "bool") -> JStr(IF v.bool THEN "true" ELSE "false")

\* A variant of runAppJson that sends every input value as a string.
runAppJson_stringified(instance, request) ==
  post(instance, "/v1/apps/run/json",
       JObj([appId  |-> request.obj.appId,
             inputs |-> JArr([j \in DOMAIN request.obj.inputs.arr |->
                               JObj([key   |-> request.obj.inputs.arr[j].obj.key,
                                     value |-> String(request.obj.inputs.arr[j].obj.value)])])]))

\* runAppJson: client.post("/v1/apps/run/json", request)
runAppJson(instance, request) == post(instance, "/v1/apps/run/json", request)

\* A variant of runAppJson's return that catches the rejection and answers
\* with an unsuccessful response.
runAppJson_return_caught(settled) ==
  IF IsTag(settled, "fulfilled")
  THEN [resolved |-> settled.fulfilled.data]
  ELSE [resolved |-> JObj([success |-> JBool(FALSE), error |-> JStr("Unauthorized")])]

\* runAppJson: return response.data; a rejection is not caught
runAppJson_return(settled) ==
  IF IsTag(settled, "fulfilled")
  THEN [resolved |-> settled.fulfilled.data]
  ELSE [rejected |-> settled.rejected]

\* getCredits (api/credits): client.get("/v1/credits")
getCredits(instance) == get(instance, "/v1/credits")

getCredits_return(settled) ==
  IF IsTag(settled, "fulfilled")
  THEN [resolved |-> settled.fulfilled.data]
  ELSE [rejected |-> settled.rejected]

\* The facade's methods hand their request to the operation with this.client.
NextrowsClient_extract(self, request) == extract(self.client, request)

NextrowsClient_runAppJson(self, request) == runAppJson(self.client, request)

\* A variant of the method that posts an empty object to the credits path.
NextrowsClient_getCredits_posted(self) ==
  post(self.client, "/v1/credits", JObj(EmptyObject))

NextrowsClient_getCredits(self) == getCredits(self.client)

----------------------------------------------------------------------------
(* The token-issuance variant of the client *)

\* new NextrowsClient(appKey, appSecret, isMock)
NextrowsTokenClient(appKey, appSecret, isMock) ==
  [appKey |-> appKey, appSecret |-> appSecret, isMock |-> isMock]

\* The base address the mock flag selects.
TokenEndpoint(isMock) == IF isMock THEN "mock" ELSE "live"

\* tokenApi.issueAccessToken(body, isMock): one POST to the selected endpoint
issueAccessToken(body, isMock) ==
  [method   |-> "POST",
   endpoint |-> TokenEndpoint(isMock),
   body     |-> JSONstringify(body)]

\* A variant of issueAccessToken that swaps the key and the secret.
NextrowsClient_issueAccessToken_swapped(self) ==
  issueAccessToken(
    JObj([grant_type |-> JStr("client_credentials"),
          appkey     |-> JStr(self.appSecret),
          secretkey  |-> JStr(self.appKey)]),
    self.isMock)

\* client.issueAccessToken()
NextrowsClient_issueAccessToken(self) ==
  issueAccessToken(
    JObj([grant_type |-> JStr("client_credentials"),
          appkey     |-> JStr(self.appKey),
          secretkey  |-> JStr(self.appSecret)]),
    self.isMock)

issueAccessToken_return(settled) ==
  IF IsTag(settled, "fulfilled")
  THEN [resolved |-> settled.fulfilled.data]
  ELSE [rejected |-> settled.rejected]

----------------------------------------------------------------------------
(* The callers' inputs *)

\* (apiKey, options) pairs given to the constructor.
ConstructorArgs ==
  { <<"sk-nr-test-api-key", EmptyObject>>,
    <<"", [baseUrl |-> "https://custom.api.com"]>>,
    <<"sk-nr-other-key", [baseUrl |-> "https://custom.api.com", timeout |-> 60000]>> }

ExampleSchema ==
  JObj([type |-> JStr("array"), items |-> JObj([type |-> JStr("string")])])

\* ExtractRequest values: with a prompt, with a schema, and with both keys
\* present but undefined.
ExtractRequests ==
  { JObj([type   |-> JStr("url"),
          data   |-> JArr(<<JStr("https://example.com")>>),
          prompt |-> JStr("Extract product names and prices")]),
    JObj([type   |-> JStr("text"),
          data   |-> JArr(<<JStr("The title is Hello World")>>),
          schema |-> ExampleSchema]),
    JObj([type   |-> JStr("url"),
          data   |-> JArr(<<JStr("https://example.com"),
                            JStr("https://example.com/products")>>),
          prompt |-> Undefined,
          schema |-> Undefined]) }

\* The item counts the declaration of ExtractRequest.data documents.
MinItems == 1

MaxItems == 20

\* ExtractRequest values whose data has no item, the documented minimum, the
\* documented maximum and one more: `data: string[]` admits each of them.
SourcesRequests ==
  { JObj([type |-> JStr("url"),
          data |-> JArr([i \in 1..n |-> JStr("https://example.com")])]) :
      n \in {0, MinItems, MaxItems, MaxItems + 1} }

\* RunAppJsonRequest values: a string, a number and a boolean input.
RunAppJsonRequests ==
  { JObj([appId  |-> JStr("abc123xyz"),
          inputs |-> JArr(<<JObj([key |-> JStr("url"), value |-> JStr("https://example.com")]),
                            JObj([key |-> JStr("maxItems"), value |-> JNum(10)]),
                            JObj([key |-> JStr("headless"), value |-> JBool(TRUE)])>>)]) }

\* (appKey, appSecret, isMock) triples given to the token variant's constructor.
TokenConstructorArgs ==
  {"test-app-key", "other-app-key"} \X {"test-app-secret", "other-app-secret"} \X BOOLEAN

----------------------------------------------------------------------------
(* The Service *)

ProductsBody ==
  JObj([success |-> JBool(TRUE),
        data    |-> JArr(<<JObj([name |-> JStr("Product 1"), price |-> JStr("$10.00")])>>)])

TableBody ==
  JObj([success     |-> JBool(TRUE),
        data        |-> JObj([columns |-> JArr(<<JStr("Name"), JStr("Price")>>),
                              rows    |-> JArr(<<JArr(<<JStr("Product 1"), JNum(10)>>)>>)]),
        runId       |-> JStr("run_abc123"),
        elapsedTime |-> JNum(2500)])

\* A body of an earlier version of the Service: rows, and no success flag.
RowsBody ==
  JObj([rows |-> JArr(<<JObj([title |-> JStr("Hello World")])>>)])

ErrorBody ==
  JObj([error |-> JStr("Unauthorized"), message |-> JStr("Invalid API key")])

TokenBody ==
  JObj([expires_dt |-> JStr("20230101000000"),
        token_type |-> JStr("Bearer"),
        token      |-> JStr("test-token")])

\* The bodies the Service answers a 2xx with.
ServiceBodies == {ProductsBody, TableBody, RowsBody}

\* A response as the network delivers it: a status and the body's JSON text.
HttpResponse(status, b) == [status |-> status, body |-> JSONstringify(b)]

ServiceReplies ==
  { HttpResponse(200, ProductsBody), HttpResponse(201, TableBody),
    HttpResponse(200, RowsBody), HttpResponse(401, ErrorBody) }

TokenReplies == {HttpResponse(200, TokenBody), HttpResponse(401, ErrorBody)}

NoEvent == [nothing |-> TRUE]

NetworkFailure == [failure |-> "ERR_NETWORK"]

\* The request's timeout expired: axios aborts it with ECONNABORTED.  `late`
\* records that the Service's response arrived afterwards.
TimeoutFailure == [failure |-> "ECONNABORTED", late |-> FALSE]

----------------------------------------------------------------------------
(* The shape an operation declares for its response *)

\* Whether a value has the shape operation `op` declares for its response.
\* GetCreditsResponse is the Service's balance object, opaque here.
MatchesShape(op, v) ==
  CASE op = "extract"          -> IsExtractResponse(v)
    [] op = "runAppJson"       -> IsRunAppJsonResponse(v)
    [] op = "getCredits"       -> TRUE
    [] op = "issueAccessToken" -> IsTokenResponse(v)

----------------------------------------------------------------------------
(* Invocations *)

Idle == [pc |-> "idle", op |-> "none", request |-> Undefined, result |-> Undefined]

\* The async method has run up to its await: the request is on its way.
Invoke(op, request) ==
  [pc |-> "awaiting", op |-> op, request |-> request, result |-> Undefined]

\* A variant that sends the request a second time.
Transmit_retry(log, req) == Append(Append(log, req), req)

\* The one outbound call of an invocation.
Transmit(log, req) == Append(log, req)

\* What the operation's async function makes of the settled promise.
OpReturn(op, settled) ==
  CASE op = "extract"          -> extract_return(settled)
    [] op = "runAppJson"       -> runAppJson_return(settled)
    [] op = "getCredits"       -> getCredits_return(settled)
    [] op = "issueAccessToken" -> issueAccessToken_return(settled)

\* A variant in which the calls share one pending promise: the event settles
\* every call that is waiting.
Settle_all(cs, c, ev) ==
  [k \in DOMAIN cs |->
     IF cs[k].pc = "awaiting"
     THEN [pc      |-> "done",
           op      |-> cs[k].op,
           request |-> cs[k].request,
           result  |-> OpReturn(cs[k].op, AxiosSettle(ev))]
     ELSE cs[k]]

\* The network event `ev` of call c's request settles the promise call c awaits,
\* and no other.
Settle(cs, c, ev) ==
  [cs EXCEPT ![c] = [pc      |-> "done",
                     op      |-> cs[c].op,
                     request |-> cs[c].request,
                     result  |-> OpReturn(cs[c].op, AxiosSettle(ev))]]

Init ==
  /\ client = NoClient
  /\ second = [facade |-> NoClient, calls |-> {}]
  /\ tokenClient = NoClient
  /\ calls = [c \in Slots |-> Idle]
  /\ wire = [c \in Slots |-> <<>>]
  /\ net = [c \in Slots |-> NoEvent]

\* new NextrowsClient(apiKey, options)
Construct(args) ==
  /\ client = NoClient
  /\ client' = NextrowsClient(args[1], args[2])
  /\ UNCHANGED <<second, tokenClient, calls, wire, net>>

\* client.extract(request)
Extract(c, request) ==
  /\ client # NoClient
  /\ calls[c].pc = "idle"
  /\ calls' = [calls EXCEPT ![c] = Invoke("extract", request)]
  /\ wire' = [wire EXCEPT ![c] = Transmit(@, NextrowsClient_extract(client, request))]
  /\ UNCHANGED <<client, second, tokenClient, net>>

\* client.runAppJson(request)
RunAppJson(c, request) ==
  /\ client # NoClient
  /\ calls[c].pc = "idle"
  /\ calls' = [calls EXCEPT ![c] = Invoke("runAppJson", request)]
  /\ wire' = [wire EXCEPT ![c] = Transmit(@, NextrowsClient_runAppJson(client, request))]
  /\ UNCHANGED <<client, second, tokenClient, net>>

\* client.getCredits()
GetCredits(c) ==
  /\ client # NoClient
  /\ calls[c].pc = "idle"
  /\ calls' = [calls EXCEPT ![c] = Invoke("getCredits", Undefined)]
  /\ wire' = [wire EXCEPT ![c] = Transmit(@, NextrowsClient_getCredits(client))]
  /\ UNCHANGED <<client, second, tokenClient, net>>

\* The Service's response to call c's request arrives.
Respond(c, r) ==
  /\ calls[c].pc = "awaiting"
  /\ calls[c].op # "issueAccessToken"
  /\ net' = [net EXCEPT ![c] = r]
  /\ calls' = Settle(calls, c, r)
  /\ UNCHANGED <<client, second, tokenClient, wire>>

\* The connection of call c's request fails.
NetworkError(c) ==
  /\ calls[c].pc = "awaiting"
  /\ net' = [net EXCEPT ![c] = NetworkFailure]
  /\ calls' = Settle(calls, c, NetworkFailure)
  /\ UNCHANGED <<client, second, tokenClient, wire>>

\* The instance's timeout expires before a response to call c's request.
Timeout(c) ==
  /\ calls[c].pc = "awaiting"
  /\ calls[c].op # "issueAccessToken"
  /\ net' = [net EXCEPT ![c] = TimeoutFailure]
  /\ calls' = Settle(calls, c, TimeoutFailure)
  /\ UNCHANGED <<client, second, tokenClient, wire>>

\* A timeout that does not abort the request: the response that arrives after
\* the expiry settles the call again.
LateResponse_delivered(c) ==
  /\ calls[c].pc = "done"
  /\ net[c] = TimeoutFailure
  /\ net' = [net EXCEPT ![c] = [@ EXCEPT !.late = TRUE]]
  /\ calls' = Settle(calls, c, HttpResponse(200, ProductsBody))
  /\ UNCHANGED <<client, second, tokenClient, wire>>

\* The Service's response to a request that has timed out arrives: the request
\* was aborted, and nothing receives it.
LateResponse(c) ==
  /\ calls[c].pc = "done"
  /\ net[c] = TimeoutFailure
  /\ net' = [net EXCEPT ![c] = [@ EXCEPT !.late = TRUE]]
  /\ UNCHANGED <<client, second, tokenClient, calls, wire>>

\* The caller has its result; the slot is free for the next invocation.
Return(c) ==
  /\ calls[c].pc = "done"
  /\ calls' = [calls EXCEPT ![c] = Idle]
  /\ wire' = [wire EXCEPT ![c] = <<>>]
  /\ net' = [net EXCEPT ![c] = NoEvent]
  /\ second' = [second EXCEPT !.calls = @ \ {c}]
  /\ UNCHANGED <<client, tokenClient>>

Next ==
  \/ \E args \in ConstructorArgs : Construct(args)
  \/ \E c \in Slots, request \in ExtractRequests : Extract(c, request)
  \/ \E c \in Slots, request \in RunAppJsonRequests : RunAppJson(c, request)
  \/ \E c \in Slots : GetCredits(c)
  \/ \E c \in Slots, r \in ServiceReplies : Respond(c, r)
  \/ \E c \in Slots : NetworkError(c)
  \/ \E c \in Slots : Timeout(c)
  \/ \E c \in Slots : LateResponse(c)
  \/ \E c \in Slots : Return(c)

Spec == Init /\ [][Next]_vars

\* The timer that axios arms for every request of an instance with a positive
\* timeout fires: an expiry that stays possible happens.
SpecTimeout == Spec /\ \A c \in Slots : WF_vars(Timeout(c))

----------------------------------------------------------------------------
(* extract with requests of every size of data *)

NextSources ==
  \/ \E args \in ConstructorArgs : Construct(args)
  \/ \E c \in Slots, request \in SourcesRequests : Extract(c, request)
  \/ \E c \in Slots, r \in ServiceReplies : Respond(c, r)
  \/ \E c \in Slots : NetworkError(c)
  \/ \E c \in Slots : Return(c)

SpecSources == Init /\ [][NextSources]_vars

----------------------------------------------------------------------------
(* Two facades in use at once *)

\* A variant of the construction that keeps the base address in a module-level
\* variable: constructing a facade sets it for the facade that exists already.
ConstructSecond_shared(args) ==
  /\ second.facade = NoClient
  /\ second' = [second EXCEPT !.facade = NextrowsClient(args[1], args[2])]
  /\ client' = IF client = NoClient
                THEN client
                ELSE [client EXCEPT
                        !.client.baseURL = NextrowsClient(args[1], args[2]).client.baseURL]
  /\ UNCHANGED <<tokenClient, calls, wire, net>>

\* new NextrowsClient(apiKey, options), once more: each construction calls
\* axios.create and keeps the instance in the new object's own field.
ConstructSecond(args) ==
  /\ second.facade = NoClient
  /\ second' = [second EXCEPT !.facade = NextrowsClient(args[1], args[2])]
  /\ UNCHANGED <<client, tokenClient, calls, wire, net>>

\* second.runAppJson(request)
RunAppJsonSecond(c, request) ==
  /\ second.facade # NoClient
  /\ calls[c].pc = "idle"
  /\ calls' = [calls EXCEPT ![c] = Invoke("runAppJson", request)]
  /\ wire' = [wire EXCEPT ![c] = Transmit(@, NextrowsClient_runAppJson(second.facade, request))]
  /\ second' = [second EXCEPT !.calls = @ \cup {c}]
  /\ UNCHANGED <<client, tokenClient, net>>

NextFacades ==
  \/ \E args \in ConstructorArgs : Construct(args)
  \/ \E args \in ConstructorArgs : ConstructSecond(args)
  \/ \E c \in Slots, request \in RunAppJsonRequests : RunAppJson(c, request)
  \/ \E c \in Slots, request \in RunAppJsonRequests : RunAppJsonSecond(c, request)
  \/ \E c \in Slots, r \in ServiceReplies : Respond(c, r)
  \/ \E c \in Slots : NetworkError(c)
  \/ \E c \in Slots : Return(c)

SpecFacades == Init /\ [][NextFacades]_vars

----------------------------------------------------------------------------
(* The token-issuance variant *)

\* new NextrowsClient(appKey, appSecret, isMock)
ConstructToken(args) ==
  /\ tokenClient = NoClient
  /\ tokenClient' = NextrowsTokenClient(args[1], args[2], args[3])
  /\ UNCHANGED <<client, second, calls, wire, net>>

\* client.issueAccessToken()
IssueAccessToken(c) ==
  /\ tokenClient # NoClient
  /\ calls[c].pc = "idle"
  /\ calls' = [calls EXCEPT ![c] = Invoke("issueAccessToken", Undefined)]
  /\ wire' = [wire EXCEPT ![c] = Transmit(@, NextrowsClient_issueAccessToken(tokenClient))]
  /\ UNCHANGED <<client, second, tokenClient, net>>

\* The token endpoint's response to call c's request arrives.
RespondToken(c, r) ==
  /\ calls[c].pc = "awaiting"
  /\ calls[c].op = "issueAccessToken"
  /\ net' = [net EXCEPT ![c] = r]
  /\ calls' = Settle(calls, c, r)
  /\ UNCHANGED <<client, second, tokenClient, wire>>

NextToken ==
  \/ \E args \in TokenConstructorArgs : ConstructToken(args)
  \/ \E c \in Slots : IssueAccessToken(c)
  \/ \E c \in Slots, r \in TokenReplies : RespondToken(c, r)
  \/ \E c \in Slots : NetworkError(c)
  \/ \E c \in Slots : Return(c)

SpecToken == Init /\ [][NextToken]_vars

----------------------------------------------------------------------------
(* Properties *)

\* The key is present in the caller's object with a value.
Given(o, k) == k \in DOMAIN o /\ o[k] # Undefined

IsResponse(ev) == IsTag(ev, "status")

Is2xx(ev) == IsResponse(ev) /\ ev.status \in 200..299

IsNon2xx(ev) == IsResponse(ev) /\ ev.status \notin 200..299

IsTransportFailure(ev) == IsTag(ev, "failure")

\* The body the Service put into the response `ev`, among `bodies`.
SentBody(ev, bodies) == CHOOSE b \in bodies : JSONstringify(b) = ev.body

AllBodies == ServiceBodies \cup {ErrorBody, TokenBody}

Done(c) == calls[c].pc = "done"

\* C1: every extract call puts on the wire a POST to /v1/extract whose JSON body,
\* as the Service reads it, has the caller's type and data, the caller's prompt
\* and schema when they are given, and no other key.
C1_ExtractBody ==
  \A c \in Slots :
    calls[c].op = "extract" =>
      /\ wire[c] # <<>>
      /\ \A i \in DOMAIN wire[c] :
           LET w == wire[c][i]
               r == calls[c].request.obj
               b == JSONparse(w.body)
           IN /\ w.method = "POST"
              /\ w.url = client.client.baseURL \o "/v1/extract"
              /\ IsTag(b, "obj")
              /\ DOMAIN b.obj = {"type", "data"}
                                  \cup {k \in {"prompt", "schema"} : Given(r, k)}
              /\ \A k \in DOMAIN b.obj : b.obj[k] = r[k]

\* C1 witness: a request whose prompt and schema are undefined is on the wire
\* with only type and data, and one with a schema carries the schema.
C1_Witness ==
  /\ calls[1].op = "extract" /\ calls[2].op = "extract"
  /\ Len(wire[1]) = 1 /\ Len(wire[2]) = 1
  /\ "prompt" \in DOMAIN calls[1].request.obj
  /\ calls[1].request.obj.prompt = Undefined
  /\ DOMAIN wire[1][1].body.members = {"type", "data"}
  /\ DOMAIN wire[2][1].body.members = {"type", "data", "schema"}
  /\ JSONparse(wire[2][1].body.members.schema) = ExampleSchema

\* C2: an extract call whose request the Service answers with a 2xx response of
\* body b resolves with b.
C2_ExtractReturnsBody ==
  \A c \in Slots :
    (calls[c].op = "extract" /\ Done(c) /\ Is2xx(net[c])) =>
      \E b \in ServiceBodies :
        /\ JSONstringify(b) = net[c].body
        /\ calls[c].result = [resolved |-> b]

\* C2 witness: extract calls have resolved with the products body and with a
\* body of another shape.
C2_Witness ==
  /\ calls[1].op = "extract" /\ calls[1].result = [resolved |-> ProductsBody]
  /\ calls[2].op = "extract" /\ calls[2].result = [resolved |-> TableBody]
  /\ IsResponse(net[2]) /\ net[2].status = 201

\* C3: a call of extract, runAppJson or getCredits whose request is answered
\* with a non-2xx status is rejected with an error that carries the status and
\* the Service's error body; it is not resolved.
C3_Non2xxRejects ==
  \A c \in Slots :
    (Done(c) /\ IsNon2xx(net[c])) =>
      /\ calls[c].op \in {"extract", "runAppJson", "getCredits"}
      /\ DOMAIN calls[c].result = {"rejected"}
      /\ calls[c].result.rejected.response.status = net[c].status
      /\ JSONstringify(calls[c].result.rejected.response.data) = net[c].body
      /\ calls[c].result.rejected.response.data = ErrorBody

\* C3 witness: a runAppJson call and an extract call rejected by a 401.
C3_Witness ==
  /\ calls[1].op = "runAppJson" /\ calls[2].op = "extract"
  /\ \A c \in Slots :
       /\ Done(c) /\ IsResponse(net[c]) /\ net[c].status = 401
       /\ IsTag(calls[c].result, "rejected")
       /\ calls[c].result.rejected.response.status = 401

\* C4: an invocation has put exactly one request on the wire from its start on,
\* whatever its outcome, and it is complete only once the network has delivered
\* a response or a failure for that request.
C4_OneRequest ==
  \A c \in Slots :
    /\ calls[c].pc = "idle" => wire[c] = <<>> /\ net[c] = NoEvent
    /\ calls[c].pc = "awaiting" => Len(wire[c]) = 1 /\ net[c] = NoEvent
    /\ calls[c].pc = "done" => Len(wire[c]) = 1 /\ net[c] # NoEvent

\* C4 witness: one call has failed on a timeout and the other on a 401, each
\* with its one request.
C4_Witness ==
  /\ Done(1) /\ IsTransportFailure(net[1]) /\ net[1].failure = "ECONNABORTED"
  /\ Len(wire[1]) = 1
  /\ Done(2) /\ IsResponse(net[2]) /\ net[2].status = 401
  /\ Len(wire[2]) = 1

\* C5: every runAppJson call puts on the wire a POST to /v1/apps/run/json whose
\* JSON body, as the Service reads it, is the caller's {appId, inputs}: the
\* inputs in order, each value a string, number or boolean as given; a 2xx
\* response's body is what the call resolves with.
C5_RunAppJson ==
  \A c \in Slots :
    calls[c].op = "runAppJson" =>
      /\ wire[c] # <<>>
      /\ \A i \in DOMAIN wire[c] :
           LET w == wire[c][i]
               r == calls[c].request.obj
               b == JSONparse(w.body)
           IN /\ w.method = "POST"
              /\ w.url = client.client.baseURL \o "/v1/apps/run/json"
              /\ IsTag(b, "obj")
              /\ DOMAIN b.obj = {"appId", "inputs"}
              /\ b.obj.appId = r.appId
              /\ Len(b.obj.inputs.arr) = Len(r.inputs.arr)
              /\ \A j \in DOMAIN r.inputs.arr :
                   /\ b.obj.inputs.arr[j].obj.key = r.inputs.arr[j].obj.key
                   /\ DOMAIN b.obj.inputs.arr[j].obj.value
                        = DOMAIN r.inputs.arr[j].obj.value
                   /\ b.obj.inputs.arr[j].obj.value = r.inputs.arr[j].obj.value
      /\ (Done(c) /\ Is2xx(net[c])) =>
           \E b \in ServiceBodies :
             /\ JSONstringify(b) = net[c].body
             /\ calls[c].result = [resolved |-> b]

\* C5 witness: a request with a number and a boolean input is on the wire as a
\* number and a boolean, and the call has resolved with the table body.
C5_Witness ==
  \E c \in Slots :
    /\ calls[c].op = "runAppJson" /\ Done(c)
    /\ calls[c].request.obj.inputs.arr[2].obj.value = JNum(10)
    /\ wire[c][1].body.members.inputs.elems[2].members.value.lex = "10"
    /\ wire[c][1].body.members.inputs.elems[3].members.value.lex = "true"
    /\ calls[c].result = [resolved |-> TableBody]

\* What call c's own network event makes its result.
OwnOutcome(c) ==
  /\ net[c] # NoEvent
  /\ Is2xx(net[c]) =>
       /\ DOMAIN calls[c].result = {"resolved"}
       /\ JSONstringify(calls[c].result.resolved) = net[c].body
  /\ IsNon2xx(net[c]) =>
       /\ DOMAIN calls[c].result = {"rejected"}
       /\ "response" \in DOMAIN calls[c].result.rejected
       /\ calls[c].result.rejected.response.status = net[c].status
       /\ JSONstringify(calls[c].result.rejected.response.data) = net[c].body
  /\ IsTransportFailure(net[c]) =>
       /\ DOMAIN calls[c].result = {"rejected"}
       /\ "response" \notin DOMAIN calls[c].result.rejected
       /\ calls[c].result.rejected.code = net[c].failure

\* C6: of the calls in progress on the facade at the same time, each that is
\* complete has the result of the network event of its own request, one that
\* waits has no result, and a step changes the result of a call only together
\* with that call's own network event.
C6_NoCrossTalk ==
  /\ [](\A c \in Slots :
          /\ Done(c) => OwnOutcome(c)
          /\ calls[c].pc = "awaiting" => calls[c].result = Undefined)
  /\ [][\A c \in Slots :
          net'[c] = net[c] => calls'[c].result = calls[c].result]_vars

\* C6 witness: two calls with different requests, the first resolved with its
\* products body while the second was rejected by its 401.
C6_Witness ==
  /\ Done(1) /\ Done(2)
  /\ calls[1].op = "extract" /\ calls[2].op = "runAppJson"
  /\ net[1] = HttpResponse(200, ProductsBody)
  /\ net[2] = HttpResponse(401, ErrorBody)
  /\ calls[1].result = [resolved |-> ProductsBody]
  /\ IsTag(calls[2].result, "rejected")

C8_TokenRequest ==
  \A c \in Slots :
    calls[c].op = "issueAccessToken" =>
      /\ tokenClient # NoClient
      /\ wire[c] # <<>>
      /\ \A i \in DOMAIN wire[c] :
           LET w == wire[c][i]
               b == JSONparse(w.body)
           IN /\ w.method = "POST"
              /\ IsTag(b, "obj")
              /\ DOMAIN b.obj = {"grant_type", "appkey", "secretkey"}
              /\ b.obj.grant_type = JStr("client_credentials")
              /\ b.obj.appkey = JStr(tokenClient.appKey)
              /\ b.obj.secretkey = JStr(tokenClient.appSecret)
              /\ tokenClient.isMock => w.endpoint = "mock"
              /\ ~tokenClient.isMock => w.endpoint = "live"
      /\ (Done(c) /\ Is2xx(net[c])) => calls[c].result = [resolved |-> TokenBody]

\* C8 witness: a client constructed with (test-app-key, test-app-secret, true)
\* has its token from the mock endpoint.
C8_Witness ==
  \E c \in Slots :
    /\ tokenClient = NextrowsTokenClient("test-app-key", "test-app-secret", TRUE)
    /\ Done(c)
    /\ wire[c][1].endpoint = "mock"
    /\ wire[c][1].body.members.appkey.lex = "\"test-app-key\""
    /\ wire[c][1].body.members.secretkey.lex = "\"test-app-secret\""
    /\ calls[c].result = [resolved |-> TokenBody]

\* A complete call whose 2xx response body does not have the shape the
\* operation declares.
MismatchedBody(c) ==
  /\ Done(c)
  /\ Is2xx(net[c])
  /\ ~MatchesShape(calls[c].op, SentBody(net[c], AllBodies))

\* C9 as claimed: a call whose 2xx response body does not have the shape the
\* operation declares is rejected, with a decoding failure; it is not resolved.
C9_Original ==
  \A c \in Slots :
    MismatchedBody(c) =>
      /\ DOMAIN calls[c].result = {"rejected"}
      /\ calls[c].result.rejected.name = "DecodingFailure"

\* C9 as amended: a call whose 2xx response body does not have the shape the
\* operation declares resolves with that body; every rejection is an AxiosError
\* of a non-2xx response or of a transport failure.
C9_Amended ==
  \A c \in Slots :
    /\ MismatchedBody(c) =>
         calls[c].result = [resolved |-> SentBody(net[c], AllBodies)]
    /\ (Done(c) /\ IsTag(calls[c].result, "rejected")) =>
         /\ calls[c].result.rejected.name = "AxiosError"
         /\ IsNon2xx(net[c]) \/ IsTransportFailure(net[c])

\* C9 witness: an extract call has resolved with the rows body, which has no
\* success flag, and a runAppJson call with the products body, whose data is
\* no table.
C9_Witness ==
  /\ calls[1].op = "extract" /\ MismatchedBody(1)
  /\ calls[1].result = [resolved |-> RowsBody]
  /\ calls[2].op = "runAppJson" /\ MismatchedBody(2)
  /\ calls[2].result = [resolved |-> ProductsBody]

\* The result is one classified failure: an API failure with the response, or a
\* transport failure without one.
ClassifiedFailure(c) ==
  /\ DOMAIN calls[c].result = {"rejected"}
  /\ calls[c].result.rejected.name = "AxiosError"
  /\ \/ /\ IsNon2xx(net[c])
        /\ "response" \in DOMAIN calls[c].result.rejected
        /\ calls[c].result.rejected.response.status = net[c].status
     \/ /\ IsTransportFailure(net[c])
        /\ "response" \notin DOMAIN calls[c].result.rejected
        /\ calls[c].result.rejected.code \in {"ERR_NETWORK", "ECONNABORTED"}

\* C10 as claimed: a complete call has either a success value of the shape its
\* operation declares or one classified failure.
C10_Original ==
  \A c \in Slots :
    Done(c) =>
      \/ /\ DOMAIN calls[c].result = {"resolved"}
         /\ MatchesShape(calls[c].op, calls[c].result.resolved)
      \/ ClassifiedFailure(c)

\* C10 as amended: a complete call has either a success value, which is the
\* whole body of its 2xx response whatever its shape, or one classified failure
\* (API or transport), and a call whose request failed has the failure, not a
\* value.
C10_Amended ==
  \A c \in Slots :
    Done(c) =>
      \/ /\ DOMAIN calls[c].result = {"resolved"}
         /\ Is2xx(net[c])
         /\ calls[c].result.resolved = SentBody(net[c], AllBodies)
      \/ /\ ClassifiedFailure(c)
         /\ ~Is2xx(net[c])

\* C10 witness: one call has ended in a success value that lacks the declared
\* success flag, the other in a transport failure.
C10_Witness ==
  /\ Done(1) /\ calls[1].op = "extract"
  /\ calls[1].result = [resolved |-> RowsBody]
  /\ Done(2) /\ IsTransportFailure(net[2])
  /\ ClassifiedFailure(2)

\* The timeout the caller configured for the Facade: the option when it is
\* given, 30000 otherwise.
ConfiguredTimeout ==
  LET args == CHOOSE a \in ConstructorArgs : a[1] = client.apiKey
  IN IF "timeout" \in DOMAIN args[2] THEN args[2].timeout ELSE 30000

IsTimeoutFailure(ev) == IsTransportFailure(ev) /\ ev.failure = "ECONNABORTED"

C12_Construction ==
  /\ [](client = NoClient =>
         \A args \in ConstructorArgs : ENABLED Construct(args))
  /\ [](client # NoClient =>
         /\ IsTag(client, "client")
         /\ \E args \in ConstructorArgs : client.apiKey = args[1])
  /\ [][(client = NoClient /\ client' # NoClient) =>
         /\ UNCHANGED <<calls, wire, net>>
         /\ \A c \in Slots : wire'[c] = <<>> /\ calls'[c] = Idle]_vars
  /\ [](\A c \in Slots :
         (client # NoClient /\ IsTag(client, "client") /\ client.apiKey = ""
            /\ calls[c].pc # "idle" /\ calls[c].op # "issueAccessToken") =>
           /\ Len(wire[c]) = 1
           /\ wire[c][1].headers["Authorization"] = "Bearer "
           /\ (Done(c) /\ IsNon2xx(net[c])) =>
                /\ IsTag(calls[c].result, "rejected")
                /\ calls[c].result.rejected.response.status = net[c].status)

\* C12 witness: a Facade was constructed with the empty credential, its first
\* call has sent a request, and the Service's 401 has failed that call.
C12_Witness ==
  /\ client # NoClient /\ client.apiKey = ""
  /\ Done(1) /\ calls[2] = Idle
  /\ Len(wire[1]) = 1
  /\ IsNon2xx(net[1]) /\ net[1].status = 401
  /\ IsTag(calls[1].result, "rejected")
  /\ calls[1].result.rejected.response.status = 401

\* C13: every getCredits call puts on the wire one GET to /v1/credits of the
\* Facade's base address with no body, and a call whose request the Service
\* answers with a 2xx response resolves with that response's body as sent.
C13_GetCredits ==
  \A c \in Slots :
    calls[c].op = "getCredits" =>
      /\ Len(wire[c]) = 1
      /\ wire[c][1].method = "GET"
      /\ wire[c][1].url = client.client.baseURL \o "/v1/credits"
      /\ wire[c][1].body = NoBody
      /\ (Done(c) /\ Is2xx(net[c])) =>
           \E b \in ServiceBodies :
             /\ JSONstringify(b) = net[c].body
             /\ calls[c].result = [resolved |-> b]

\* C13 witness: two getCredits calls have resolved with the bodies of a 200 and
\* of a 201 response.
C13_Witness ==
  /\ calls[1].op = "getCredits" /\ calls[2].op = "getCredits"
  /\ Len(wire[1]) = 1 /\ wire[1][1].method = "GET" /\ wire[1][1].body = NoBody
  /\ Is2xx(net[1]) /\ net[1].status = 200
  /\ calls[1].result = [resolved |-> ProductsBody]
  /\ Is2xx(net[2]) /\ net[2].status = 201
  /\ calls[2].result = [resolved |-> TableBody]

\* C14: every request that an extract call puts on the wire has, as the Service
\* reads it, a data array of between 1 and 20 strings.
C14_SourcesBound ==
  \A c \in Slots :
    calls[c].op = "extract" =>
      \A i \in DOMAIN wire[c] :
        LET b == JSONparse(wire[c][i].body)
        IN /\ IsTag(b, "obj")
           /\ "data" \in DOMAIN b.obj
           /\ IsTag(b.obj.data, "arr")
           /\ Len(b.obj.data.arr) \in MinItems..MaxItems
           /\ \A j \in DOMAIN b.obj.data.arr : IsTag(b.obj.data.arr[j], "str")

\* The facade `f` holds the configuration that some constructor arguments
\* resolve to: the credential as given, the base address and the timeout as
\* given or else https://api.nextrows.com and 30000.
IsResolved(f) ==
  /\ IsTag(f, "client")
  /\ \E args \in ConstructorArgs :
       /\ f.apiKey = args[1]
       /\ f.client.headers["Authorization"] = "Bearer " \o args[1]
       /\ f.client.baseURL = IF "baseUrl" \in DOMAIN args[2]
                             THEN args[2].baseUrl
                             ELSE "https://api.nextrows.com"
       /\ f.client.timeout = IF "timeout" \in DOMAIN args[2]
                             THEN args[2].timeout
                             ELSE 30000

\* The facade whose method started the call of slot c.
FacadeOf(c) == IF c \in second.calls THEN second.facade ELSE client

\* C15: a constructed Facade holds the configuration its constructor arguments
\* resolve to, with the defaults https://api.nextrows.com and 30000; no step,
\* whether a call, its outcome or the construction of another Facade, changes
\* it; and every request on the wire has the base address, the timeout and the
\* credential of the Facade whose call sent it.
C15_OwnConfiguration ==
  /\ [](/\ client # NoClient => IsResolved(client)
        /\ second.facade # NoClient => IsResolved(second.facade))
  /\ [][/\ client # NoClient => client' = client
        /\ second.facade # NoClient => second'.facade = second.facade]_vars
  /\ [](\A c \in Slots :
         calls[c].op = "runAppJson" =>
           \A i \in DOMAIN wire[c] :
             /\ IsTag(FacadeOf(c), "client")
             /\ wire[c][i].url = FacadeOf(c).client.baseURL \o "/v1/apps/run/json"
             /\ wire[c][i].timeout = FacadeOf(c).client.timeout
             /\ wire[c][i].headers["Authorization"] = "Bearer " \o FacadeOf(c).apiKey)

\* C15 witness: a Facade with the default base address and timeout and one with
\* a custom base address and timeout each have a call in progress, the second
\* Facade's started first, and each request carries its own Facade's values.
C15_Witness ==
  /\ client # NoClient /\ second.facade # NoClient
  /\ client.client.baseURL = "https://api.nextrows.com"
  /\ client.client.timeout = 30000
  /\ second.facade.client.baseURL = "https://custom.api.com"
  /\ second.facade.client.timeout = 60000
  /\ second.calls = {1}
  /\ Done(1) /\ calls[2].pc = "awaiting"
  /\ Len(wire[1]) = 1 /\ Len(wire[2]) = 1
  /\ wire[1][1].url = "https://custom.api.com/v1/apps/run/json"
  /\ wire[1][1].timeout = 60000
  /\ wire[1][1].headers["Authorization"] = "Bearer sk-nr-other-key"
  /\ wire[2][1].url = "https://api.nextrows.com/v1/apps/run/json"
  /\ wire[2][1].timeout = 30000
  /\ wire[2][1].headers["Authorization"] = "Bearer sk-nr-test-api-key"

====
